---- MODULE Spec2Model ----
(***************************************************************************)
(* Reminder scheduling and delivery of telegram-note-bot.                  *)
(*                                                                         *)
(* State: the schedules and reminders tables of the SQLite store, the      *)
(* in-memory job table of the BackgroundScheduler, the asynchronous send   *)
(* tasks handed to the application's job queue, and the wall clock.        *)
(* Time is counted in ticks; a day has TicksPerDay ticks.  `now' is the    *)
(* UTC clock, the host's local clock is now + tz.                          *)
(*                                                                         *)
(* A chat handler runs to its first await without interleaving, so a       *)
(* handler is one action.  The timer engine runs in its own thread: a job  *)
(* whose run time equals the local clock is run, a job whose run time is   *)
(* already behind the clock is dropped as missed, and the clock does not   *)
(* pass the run time of an armed job while the engine is running.  The     *)
(* send task has two steps, because the message reaches the channel before *)
(* the coroutine resumes and updates the store.                            *)
(***************************************************************************)
EXTENDS Integers, Sequences, FiniteSets, Bags, TLC

\* ---------------------------------------------------------------- bounds
TicksPerDay == 3
MaxTime == 6
MaxRows == 2
MaxRegs == 4
MaxSchedId == 2
MaxCmds == 3
MaxStarts == 2
MaxTokens == 2
MaxGets == 3

Names == {"a", "b"}
TzOffsets == {0, 1}
Epoch == TicksPerDay
StartTimes == {MaxTime - 1, MaxTime}
ReminderMinutes == {0, 1}
SchedIds == 1 .. MaxSchedId

NoSched == [id |-> 0]
NoTime == 0 - 1

VARIABLES
    now,        \* UTC wall clock
    tz,         \* local time = UTC + tz on this host
    schedules,  \* schedules table: name -> row or NoSched (one user)
    nextSchedId,\* AUTOINCREMENT counter of the schedules table
    reminders,  \* reminders table: sequence of rows, index = AUTOINCREMENT id
    running,    \* BackgroundScheduler is started
    jobs,       \* job table: set of jobs, job id "reminder_<schedule id>"
    nextReg,    \* number of add_job calls so far; identifies a registration
    tasks,      \* send tasks handed to the application's job queue
    delivered,  \* bag of <<schedule id, fire time>> the channel accepted
    replaced,   \* registrations discarded by add_job(replace_existing=True)
    cmds,       \* number of user commands handled so far
    starts,     \* number of start() calls so far
    errors,     \* registrations whose delivery failure was logged
    outcome,    \* how the last call of a handler or service method ended
    tokens,     \* TokenManager.tokens: token -> (timestamp, used)
    issued,     \* token -> time generate_token returned it, NoTime if never
    nextToken,  \* the next token generate_token draws
    lock,       \* TokenManager.lock: the request thread that holds it, or 0
    pc,         \* request thread -> its position in do_GET
    req,        \* request thread -> the URL it is serving
    seen,       \* request thread -> the timestamp it read for its token
    resp,       \* request thread -> status of its last response
    grants,     \* token -> number of times validate_and_consume returned True
    handed,     \* editor URLs the bot has put into a Web App button
    gets,       \* number of GET requests received so far
    rows,       \* schedules table of all users: set of rows
    nextRowId   \* AUTOINCREMENT counter of that table

coreVars == <<now, tz, schedules, nextSchedId, reminders, running, jobs,
              nextReg, tasks, delivered, replaced, cmds, starts, errors,
              outcome>>

webVars == <<tokens, issued, nextToken, lock, pc, req, seen, resp, grants,
             handed, gets>>

tableVars == <<rows, nextRowId>>

vars == <<coreVars, webVars, tableVars>>

\* ---------------------------------------------------------------- time
\* datetime.now(): naive local time
LocalNow == now + tz

\* Text codes of the separator between date and time of day
SepT == 84
SepSpace == 32

\* datetime.isoformat(): 'YYYY-MM-DD' 'T' 'HH:MM:SS'
IsoFormat(t) == <<t \div TicksPerDay, SepT, t % TicksPerDay>>

\* datetime.fromisoformat()
FromIsoFormat(s) == s[1] * TicksPerDay + s[3]

\* SQLite datetime('now'): UTC, 'YYYY-MM-DD' ' ' 'HH:MM:SS'
SqlDatetimeNow == <<now \div TicksPerDay, SepSpace, now % TicksPerDay>>

\* SQLite '>' on two TEXT values (BINARY collation)
TextGreater(a, b) ==
    \/ a[1] > b[1]
    \/ a[1] = b[1] /\ a[2] > b[2]
    \/ a[1] = b[1] /\ a[2] = b[2] /\ a[3] > b[3]

\* ---------------------------------------------------------------- store
GetSchedule(name) == schedules[name]

RowsOf(tbl, sid) == {i \in DOMAIN tbl : tbl[i].schedule_id = sid}

\* save_schedule: UPDATE in place when (user, name) exists, else INSERT
SaveSchedule(name, start, rem) ==
    IF GetSchedule(name) # NoSched
    THEN [schedules EXCEPT ![name] =
              [id |-> @.id, start |-> start, rem |-> rem]]
    ELSE [schedules EXCEPT ![name] =
              [id |-> nextSchedId, start |-> start, rem |-> rem]]

\* ---------------------------------------------------------------- service
\* reminder_minutes is Optional[int]: None is NoMinutes
NoMinutes == 0 - 100

\* Faulty variant of Truthy: only None counts as "no reminder requested".
TruthyUnlessNone(rem) == rem # NoMinutes

\* Python truth value of reminder_minutes
Truthy(rem) == rem # NoMinutes /\ rem # 0

ReminderTime(s) == s.start - s.rem

\* Faulty variant of WillSchedule: a firing time equal to the current time
\* is accepted.
WillScheduleStrict(s) == Truthy(s.rem) /\ ~(ReminderTime(s) < LocalNow)

\* schedule_reminder goes past both early returns
WillSchedule(s) == Truthy(s.rem) /\ ~(ReminderTime(s) <= LocalNow)

\* Faulty variant of InsertReminder: an upsert keyed by schedule_id that
\* rewrites the rows of the schedule in place.
InsertReminderReset(tbl, sid, rt) ==
    IF RowsOf(tbl, sid) = {}
    THEN Append(tbl, [schedule_id |-> sid, reminder_time |-> IsoFormat(rt),
                      sent |-> FALSE, sent_at |-> NoTime])
    ELSE [i \in DOMAIN tbl |->
            IF tbl[i].schedule_id = sid
            THEN [tbl[i] EXCEPT !.reminder_time = IsoFormat(rt),
                                !.sent = FALSE, !.sent_at = NoTime]
            ELSE tbl[i]]

\* INSERT OR REPLACE INTO reminders (schedule_id, reminder_time, sent)
\* The table has no UNIQUE constraint on schedule_id, only the AUTOINCREMENT
\* primary key, which the statement does not supply: it always inserts.
InsertReminder(tbl, sid, rt) ==
    Append(tbl, [schedule_id |-> sid, reminder_time |-> IsoFormat(rt),
                 sent |-> FALSE, sent_at |-> NoTime])

\* Faulty variant of AddJob: replace_existing left out, the old job stays.
AddJobNoReplace(tbl, s, rt, reg) ==
    tbl \cup {[id |-> s.id, reg |-> reg, fire |-> rt, sched |-> s]}

\* scheduler.add_job(..., id=job_id, replace_existing=True)
AddJob(tbl, s, rt, reg) ==
    {j \in tbl : j.id # s.id}
        \cup {[id |-> s.id, reg |-> reg, fire |-> rt, sched |-> s]}

\* registrations the job table holds under job id "reminder_<sid>"
JobsOf(tbl, sid) == {j \in tbl : j.id = sid}

\* ------------------------------------------------------------ web app
\* Request threads of the web server
Threads == {1, 2}

\* token_urlsafe(32): a token is drawn once; 0 is the absent or empty token,
\* MaxTokens + 1 a token generate_token never returns
NoToken == 0
TokenArgs == 0 .. MaxTokens + 1

\* TokenManager(expiry_seconds=300), in ticks
ExpirySeconds == 1

Editors == {"note_editor.html", "schedule_editor.html"}
Pages == Editors \cup {"index.html"}
Urls == [page : Pages, token : TokenArgs]
NoUrl == [page |-> "", token |-> NoToken]

\* get_url(page) + '?' + urlencode(params): params holds the fields of the
\* note or schedule, no _token
EditorUrl(page) == [page |-> page, token |-> NoToken]

\* _cleanup_expired
CleanupExpired(tbl) ==
    [t \in {u \in DOMAIN tbl : ~(now - tbl[u].timestamp > ExpirySeconds)}
        |-> tbl[t]]

Init ==
    /\ now = Epoch
    /\ tz \in TzOffsets
    /\ schedules = [n \in Names |-> NoSched]
    /\ nextSchedId = 1
    /\ reminders = <<>>
    /\ running = FALSE
    /\ jobs = {}
    /\ nextReg = 1
    /\ tasks = {}
    /\ delivered = EmptyBag
    /\ replaced = {}
    /\ errors = {}
    /\ cmds = 0
    /\ starts = 0
    /\ outcome = "none"
    /\ tokens = <<>>
    /\ issued = [t \in TokenArgs |-> NoTime]
    /\ nextToken = 1
    /\ lock = 0
    /\ pc = [th \in Threads |-> "idle"]
    /\ req = [th \in Threads |-> NoUrl]
    /\ seen = [th \in Threads |-> NoTime]
    /\ resp = [th \in Threads |-> 0]
    /\ grants = [t \in TokenArgs |-> 0]
    /\ handed = {}
    /\ gets = 0
    /\ rows = {}
    /\ nextRowId = 1

\* _handle_schedule_web_app_data: save, then schedule_reminder if minutes > 0
HandleScheduleWebAppData(name, start, rem) ==
    /\ running
    /\ cmds < MaxCmds
    /\ GetSchedule(name) = NoSched => nextSchedId <= MaxSchedId
    /\ schedules' = SaveSchedule(name, start, rem)
    /\ nextSchedId' = IF GetSchedule(name) = NoSched
                      THEN nextSchedId + 1 ELSE nextSchedId
    /\ LET s == schedules'[name] IN
         IF rem > 0 /\ WillSchedule(s)
         THEN /\ Len(reminders) < MaxRows
              /\ nextReg <= MaxRegs
              /\ reminders' = InsertReminder(reminders, s.id, ReminderTime(s))
              /\ jobs' = AddJob(jobs, s, ReminderTime(s), nextReg)
              /\ nextReg' = nextReg + 1
              /\ replaced' = replaced \cup {j.reg : j \in JobsOf(jobs, s.id)}
         ELSE UNCHANGED <<reminders, jobs, nextReg, replaced>>
    /\ cmds' = cmds + 1
    /\ outcome' = "returned"
    /\ UNCHANGED <<starts, now, tz, running, tasks, delivered, errors>>
    /\ UNCHANGED <<webVars, tableVars>>

Tick ==
    /\ now < MaxTime
    /\ running => \A j \in jobs : j.fire > LocalNow
    /\ now' = now + 1
    /\ UNCHANGED <<outcome, cmds, starts, tz, schedules, nextSchedId, reminders,
                   running, jobs,
                   nextReg, tasks, delivered, replaced, errors>>
    /\ UNCHANGED <<webVars, tableVars>>

\* _load_pending_reminders: SELECT s.*, r.reminder_time FROM schedules s
\* JOIN reminders r ... WHERE r.sent = FALSE AND r.reminder_time > datetime('now')
ScheduleById(sid) ==
    IF \E n \in Names : schedules[n].id = sid
    THEN schedules[CHOOSE n \in Names : schedules[n].id = sid]
    ELSE NoSched

PendingRows ==
    {i \in DOMAIN reminders :
        /\ ScheduleById(reminders[i].schedule_id) # NoSched
        /\ reminders[i].sent = FALSE
        /\ TextGreater(reminders[i].reminder_time, SqlDatetimeNow)}

\* registration number given to the add_job call made for row i
RegOfRow(i) == nextReg + Cardinality({j \in PendingRows : j < i})

\* The loop calls add_job once per fetched row; with replace_existing the
\* last row fetched for a schedule id wins: `last' maps every schedule id
\* that has pending rows to that row, and the others to 0.
LoadPendingReminders(last) ==
    /\ nextReg + Cardinality(PendingRows) - 1 <= MaxRegs
    /\ jobs' = {j \in jobs : RowsOf(reminders, j.id) \cap PendingRows = {}}
                \cup {[id |-> sid, reg |-> RegOfRow(last[sid]),
                        fire |-> FromIsoFormat(reminders[last[sid]].reminder_time),
                        sched |-> ScheduleById(sid)] :
                       sid \in {x \in SchedIds :
                                  RowsOf(reminders, x) \cap PendingRows # {}}}
    /\ nextReg' = nextReg + Cardinality(PendingRows)
    /\ replaced' = replaced
                   \cup {j.reg : j \in {x \in jobs :
                            RowsOf(reminders, x.id) \cap PendingRows # {}}}
                   \cup {RegOfRow(i) : i \in {j \in PendingRows :
                            last[reminders[j].schedule_id] # j}}

\* The SELECT has no ORDER BY; SQLite scans the reminders table in rowid
\* order and looks each schedule up by its primary key, so for a schedule id
\* the pending row with the greatest rowid is fetched last.
LastFetched(sid) ==
    LET pending == RowsOf(reminders, sid) \cap PendingRows IN
      IF pending = {} THEN 0
      ELSE CHOOSE i \in pending : \A k \in pending : k <= i

\* start(): scheduler.start(), then _load_pending_reminders()
Start ==
    /\ ~running
    /\ starts < MaxStarts
    /\ starts' = starts + 1
    /\ running' = TRUE
    /\ outcome' = "returned"
    /\ LoadPendingReminders([sid \in SchedIds |-> LastFetched(sid)])
    /\ UNCHANGED <<cmds, now, tz, schedules, nextSchedId, reminders,
                   tasks, delivered, errors>>
    /\ UNCHANGED <<webVars, tableVars>>

\* Faulty variant of Stop: the rows of the reminders not yet sent are deleted
\* from the store together with their jobs.
StopDropsPending ==
    /\ running
    /\ running' = FALSE
    /\ outcome' = "returned"
    /\ jobs' = {}
    /\ reminders' = SelectSeq(reminders, LAMBDA r : r.sent)
    /\ UNCHANGED <<cmds, starts, now, tz, schedules, nextSchedId,
                   nextReg,
                   tasks, delivered, replaced, errors>>
    /\ UNCHANGED <<webVars, tableVars>>

\* stop(): scheduler.shutdown(); the in-memory job store is emptied
Stop ==
    /\ running
    /\ running' = FALSE
    /\ outcome' = "returned"
    /\ jobs' = {}
    /\ UNCHANGED <<cmds, starts, now, tz, schedules, nextSchedId, reminders,
                   nextReg,
                   tasks, delivered, replaced, errors>>
    /\ UNCHANGED <<webVars, tableVars>>

\* The process dies: job table and queued send tasks are lost, the store
\* stays.  With no task queued the outcome is that of Stop.
Crash ==
    /\ running
    /\ tasks # {}
    /\ running' = FALSE
    /\ jobs' = {}
    /\ tasks' = {}
    /\ UNCHANGED <<outcome, cmds, starts, now, tz, schedules, nextSchedId, reminders,
                   nextReg,
                   delivered, replaced, errors>>
    /\ UNCHANGED <<webVars, tableVars>>

\* scheduler.remove_job(job_id); JobLookupError is caught and logged
RemoveJob(tbl, sid) == {j \in tbl : j.id # sid}

\* Faulty variant of CancelRaises: remove_job called outside the try block,
\* so the JobLookupError of an absent job reaches the caller.
CancelRaisesUncaught(tbl, sid) == JobsOf(tbl, sid) = {}

\* cancel_reminder raises to its caller: never, `except Exception' catches
\* the JobLookupError of remove_job and logs a warning
CancelRaises(tbl, sid) == FALSE

\* cancel_reminder(schedule_id)
CancelReminder(tbl, sid) == RemoveJob(tbl, sid)

\* delete_command, schedule branch: cancel_reminder if reminder_minutes is
\* truthy, then delete_schedule.  Foreign keys are not enabled on the
\* connection, so the reminders rows of the schedule stay.
DeleteCommand(name) ==
    /\ running
    /\ cmds < MaxCmds
    /\ GetSchedule(name) # NoSched
    /\ LET s == GetSchedule(name)
           cancels == Truthy(s.rem) /\ s.id # 0
           raises == cancels /\ CancelRaises(jobs, s.id)
       IN /\ jobs' = IF cancels THEN CancelReminder(jobs, s.id) ELSE jobs
          /\ schedules' = IF raises THEN schedules
                          ELSE [schedules EXCEPT ![name] = NoSched]
          /\ outcome' = IF raises THEN "raised" ELSE "returned"
    /\ cmds' = cmds + 1
    /\ UNCHANGED <<starts, now, tz, nextSchedId, reminders, running, nextReg,
                   tasks, delivered, replaced, errors>>
    /\ UNCHANGED <<webVars, tableVars>>

\* Faulty variant of SendReminder: the job stays in the job table after its
\* callback was run.
SendReminderKeepsJob(j) ==
    /\ running
    /\ j \in jobs
    /\ j.fire = LocalNow
    /\ tasks' = tasks \cup {[reg |-> j.reg, fire |-> j.fire,
                             sched |-> j.sched, stage |-> "queued"]}
    /\ UNCHANGED <<outcome, cmds, starts, now, tz, schedules, nextSchedId,
                   reminders, running, jobs,
                   nextReg, delivered, replaced, errors>>
    /\ UNCHANGED <<webVars, tableVars>>

\* Faulty variant of SendReminder: the callback waits for the deliveries in
\* flight before it hands over the next one.
SendReminderBlocking(j) ==
    /\ running
    /\ j \in jobs
    /\ j.fire = LocalNow
    /\ tasks = {}
    /\ tasks' = tasks \cup {[reg |-> j.reg, fire |-> j.fire,
                             sched |-> j.sched, stage |-> "queued"]}
    /\ jobs' = jobs \ {j}
    /\ UNCHANGED <<outcome, cmds, starts, now, tz, schedules, nextSchedId,
                   reminders, running,
                   nextReg, delivered, replaced, errors>>
    /\ UNCHANGED <<webVars, tableVars>>

\* The timer engine runs a due job: _send_reminder hands the delivery to the
\* application's job queue (run_once, when=0); a date job is then discarded.
SendReminder(j) ==
    /\ running
    /\ j \in jobs
    /\ j.fire = LocalNow
    /\ tasks' = tasks \cup {[reg |-> j.reg, fire |-> j.fire,
                             sched |-> j.sched, stage |-> "queued"]}
    /\ jobs' = jobs \ {j}
    /\ UNCHANGED <<outcome, cmds, starts, now, tz, schedules, nextSchedId, reminders,
                   running,
                   nextReg, delivered, replaced, errors>>
    /\ UNCHANGED <<webVars, tableVars>>

\* A job whose run time was missed by more than the grace time is dropped
\* without running.
Misfire(j) ==
    /\ running
    /\ j \in jobs
    /\ j.fire < LocalNow
    /\ jobs' = jobs \ {j}
    /\ UNCHANGED <<outcome, cmds, starts, now, tz, schedules, nextSchedId, reminders,
                   running,
                   nextReg, tasks, delivered, replaced, errors>>
    /\ UNCHANGED <<webVars, tableVars>>

\* Faulty variant of MarkSent: the UPDATE sets the flag, not the timestamp.
MarkSentNoStamp(tbl, sid) ==
    [i \in DOMAIN tbl |->
        IF tbl[i].schedule_id = sid
        THEN [tbl[i] EXCEPT !.sent = TRUE]
        ELSE tbl[i]]

\* UPDATE reminders SET sent = TRUE, sent_at = CURRENT_TIMESTAMP
\* WHERE schedule_id = ?
MarkSent(tbl, sid) ==
    [i \in DOMAIN tbl |->
        IF tbl[i].schedule_id = sid
        THEN [tbl[i] EXCEPT !.sent = TRUE, !.sent_at = now]
        ELSE tbl[i]]

\* _send_reminder_async up to the await: the channel accepts the message
SendMessageOk(t) ==
    /\ t \in tasks
    /\ t.stage = "queued"
    /\ tasks' = (tasks \ {t}) \cup {[t EXCEPT !.stage = "delivered"]}
    /\ delivered' = delivered (+) SetToBag({<<t.sched.id, t.fire>>})
    /\ UNCHANGED <<outcome, cmds, starts, now, tz, schedules, nextSchedId, reminders,
                   running, jobs,
                   nextReg, replaced, errors>>
    /\ UNCHANGED <<webVars, tableVars>>

\* Faulty variant of SendMessageFail: the except branch re-arms the job.
SendMessageFailRetry(t) ==
    /\ t \in tasks
    /\ t.stage = "queued"
    /\ tasks' = tasks \ {t}
    /\ errors' = errors \cup {t.reg}
    /\ jobs' = AddJob(jobs, t.sched, t.fire, t.reg)
    /\ UNCHANGED <<outcome, cmds, starts, now, tz, schedules, nextSchedId, reminders,
                   running,
                   nextReg, delivered, replaced>>
    /\ UNCHANGED <<webVars, tableVars>>

\* _send_reminder_async: send_message raises; except branch logs the error
SendMessageFail(t) ==
    /\ t \in tasks
    /\ t.stage = "queued"
    /\ tasks' = tasks \ {t}
    /\ errors' = errors \cup {t.reg}
    /\ UNCHANGED <<outcome, cmds, starts, now, tz, schedules, nextSchedId, reminders,
                   running, jobs,
                   nextReg, delivered, replaced>>
    /\ UNCHANGED <<webVars, tableVars>>

\* _send_reminder_async after the await returned: mark the reminder as sent
MarkReminderSent(t) ==
    /\ t \in tasks
    /\ t.stage = "delivered"
    /\ tasks' = tasks \ {t}
    /\ reminders' = MarkSent(reminders, t.sched.id)
    /\ UNCHANGED <<outcome, cmds, starts, now, tz, schedules, nextSchedId, running,
                   jobs, nextReg,
                   delivered, replaced, errors>>
    /\ UNCHANGED <<webVars, tableVars>>

Next ==
    \/ \E n \in Names, st \in StartTimes, rem \in ReminderMinutes :
           HandleScheduleWebAppData(n, st, rem)
    \/ \E n \in Names : DeleteCommand(n)
    \/ Start
    \/ Stop
    \/ Crash
    \/ Tick
    \/ \E j \in jobs : SendReminder(j)
    \/ \E j \in jobs : Misfire(j)
    \/ \E t \in tasks : SendMessageOk(t)
    \/ \E t \in tasks : SendMessageFail(t)
    \/ \E t \in tasks : MarkReminderSent(t)

Spec == Init /\ [][Next]_vars


\* ------------------------------------------------- the service called directly
\* The caller-facing methods of ReminderService, called by a caller that does
\* not filter the schedule first: reminder_minutes may be None or negative.
ApiReminderMinutes == {NoMinutes, 0 - 1, 0, 1}

\* save_schedule, then schedule_reminder(schedule) on the saved schedule
ScheduleReminder(name, start, rem) ==
    /\ running
    /\ cmds < MaxCmds
    /\ GetSchedule(name) = NoSched => nextSchedId <= MaxSchedId
    /\ schedules' = SaveSchedule(name, start, rem)
    /\ nextSchedId' = IF GetSchedule(name) = NoSched
                      THEN nextSchedId + 1 ELSE nextSchedId
    /\ LET s == schedules'[name] IN
         IF WillSchedule(s)
         THEN /\ Len(reminders) < MaxRows
              /\ nextReg <= MaxRegs
              /\ reminders' = InsertReminder(reminders, s.id, ReminderTime(s))
              /\ jobs' = AddJob(jobs, s, ReminderTime(s), nextReg)
              /\ nextReg' = nextReg + 1
              /\ replaced' = replaced \cup {j.reg : j \in JobsOf(jobs, s.id)}
         ELSE UNCHANGED <<reminders, jobs, nextReg, replaced>>
    /\ cmds' = cmds + 1
    /\ outcome' = "returned"
    /\ UNCHANGED <<starts, now, tz, running, tasks, delivered, errors>>
    /\ UNCHANGED <<webVars, tableVars>>

\* cancel_reminder(schedule_id) for any schedule id, armed or not
CancelReminderCall(sid) ==
    /\ cmds < MaxCmds
    /\ jobs' = CancelReminder(jobs, sid)
    /\ outcome' = IF CancelRaises(jobs, sid) THEN "raised" ELSE "returned"
    /\ cmds' = cmds + 1
    /\ UNCHANGED <<starts, now, tz, schedules, nextSchedId, reminders, running,
                   nextReg, tasks, delivered, replaced, errors>>
    /\ UNCHANGED <<webVars, tableVars>>

\* start() when the SELECT of _load_pending_reminders raises: scheduler.start()
\* has already run, the exception leaves start() with no job loaded
StartFail ==
    /\ ~running
    /\ starts < MaxStarts
    /\ starts' = starts + 1
    /\ running' = TRUE
    /\ outcome' = "raised"
    /\ UNCHANGED <<cmds, now, tz, schedules, nextSchedId, reminders, jobs,
                   nextReg, tasks, delivered, replaced, errors>>
    /\ UNCHANGED <<webVars, tableVars>>

NextApi ==
    \/ \E n \in Names, st \in StartTimes, rem \in ApiReminderMinutes :
           ScheduleReminder(n, st, rem)
    \/ \E sid \in SchedIds : CancelReminderCall(sid)
    \/ Start
    \/ StartFail
    \/ Stop
    \/ Tick
    \/ \E j \in jobs : SendReminder(j)
    \/ \E j \in jobs : Misfire(j)
    \/ \E t \in tasks : SendMessageOk(t)
    \/ \E t \in tasks : SendMessageFail(t)
    \/ \E t \in tasks : MarkReminderSent(t)

SpecApi == Init /\ [][NextApi]_vars


\* ------------------------------------------- schedules that start another day
\* Start times entered in the schedule editor of which one lies on the day
\* after the last day the clock reaches.
LateStartTimes == {MaxTime - 1, MaxTime + 1}

NextDays ==
    \/ \E n \in Names, st \in LateStartTimes, rem \in ReminderMinutes :
           HandleScheduleWebAppData(n, st, rem)
    \/ \E n \in Names : DeleteCommand(n)
    \/ Start
    \/ Stop
    \/ Crash
    \/ Tick
    \/ \E j \in jobs : SendReminder(j)
    \/ \E j \in jobs : Misfire(j)
    \/ \E t \in tasks : SendMessageOk(t)
    \/ \E t \in tasks : SendMessageFail(t)
    \/ \E t \in tasks : MarkReminderSent(t)

SpecDays == Init /\ [][NextDays]_vars


\* ------------------------------------------------- web app server and tokens
\* HTTP status codes of do_GET; NoResp: no response sent yet
Forbidden == 403
Served == 200
NoResp == 0

\* Faulty variant of LockFree: the lock excludes nobody.
LockFreeAlways(l) == TRUE

\* `with self.lock' can be entered
LockFree(l) == l = 0

\* note_command, schedule_command and the view callbacks: the editor URL is
\* put into a Web App button
EditorCommand(page) ==
    /\ handed' = handed \cup {EditorUrl(page)}
    /\ UNCHANGED <<tokens, issued, nextToken, lock, pc, req, seen, resp,
                   grants, gets>>
    /\ UNCHANGED <<coreVars, tableVars>>

\* generate_token
GenerateToken ==
    /\ nextToken <= MaxTokens
    /\ LockFree(lock)
    /\ tokens' = CleanupExpired(
                    (nextToken :> [timestamp |-> now, used |-> FALSE])
                        @@ tokens)
    /\ issued' = [issued EXCEPT ![nextToken] = now]
    /\ nextToken' = nextToken + 1
    /\ UNCHANGED <<lock, pc, req, seen, resp, grants, handed, gets>>
    /\ UNCHANGED <<coreVars, tableVars>>

\* do_GET up to the lock of validate_and_consume: a page that is not an
\* editor is served; an editor without _token is refused (`not token')
DoGet(th, url) ==
    /\ pc[th] = "idle"
    /\ gets < MaxGets
    /\ gets' = gets + 1
    /\ req' = [req EXCEPT ![th] = url]
    /\ IF url.page \in Editors
       THEN IF url.token = NoToken
            THEN /\ resp' = [resp EXCEPT ![th] = Forbidden]
                 /\ pc' = pc
            ELSE /\ resp' = [resp EXCEPT ![th] = NoResp]
                 /\ pc' = [pc EXCEPT ![th] = "acquire"]
       ELSE /\ resp' = [resp EXCEPT ![th] = Served]
            /\ pc' = pc
    /\ UNCHANGED <<tokens, issued, nextToken, lock, seen, grants, handed>>
    /\ UNCHANGED <<coreVars, tableVars>>

\* validate_and_consume: `with self.lock', then _cleanup_expired
Acquire(th) ==
    /\ pc[th] = "acquire"
    /\ LockFree(lock)
    /\ lock' = th
    /\ tokens' = CleanupExpired(tokens)
    /\ pc' = [pc EXCEPT ![th] = "check"]
    /\ UNCHANGED <<issued, nextToken, req, seen, resp, grants, handed, gets>>
    /\ UNCHANGED <<coreVars, tableVars>>

\* validate_and_consume: the three tests; each failure returns False, the
\* lock is released and do_GET answers 403
Check(th) ==
    /\ pc[th] = "check"
    /\ LET t == req[th].token IN
         IF t \notin DOMAIN tokens
         THEN /\ tokens' = tokens
              /\ resp' = [resp EXCEPT ![th] = Forbidden]
              /\ pc' = [pc EXCEPT ![th] = "idle"]
              /\ lock' = 0
              /\ seen' = seen
         ELSE IF now - tokens[t].timestamp > ExpirySeconds
         THEN /\ tokens' = [u \in DOMAIN tokens \ {t} |-> tokens[u]]
              /\ resp' = [resp EXCEPT ![th] = Forbidden]
              /\ pc' = [pc EXCEPT ![th] = "idle"]
              /\ lock' = 0
              /\ seen' = seen
         ELSE IF tokens[t].used
         THEN /\ tokens' = tokens
              /\ resp' = [resp EXCEPT ![th] = Forbidden]
              /\ pc' = [pc EXCEPT ![th] = "idle"]
              /\ lock' = 0
              /\ seen' = seen
         ELSE /\ tokens' = tokens
              /\ resp' = resp
              /\ pc' = [pc EXCEPT ![th] = "mark"]
              /\ lock' = lock
              /\ seen' = [seen EXCEPT ![th] = tokens[t].timestamp]
    /\ UNCHANGED <<issued, nextToken, req, grants, handed, gets>>
    /\ UNCHANGED <<coreVars, tableVars>>

\* validate_and_consume: self.tokens[token] = (timestamp, True); return True;
\* do_GET then serves the page
Mark(th) ==
    /\ pc[th] = "mark"
    /\ LET t == req[th].token IN
         /\ tokens' = (t :> [timestamp |-> seen[th], used |-> TRUE]) @@ tokens
         /\ grants' = [grants EXCEPT ![t] = @ + 1]
    /\ resp' = [resp EXCEPT ![th] = Served]
    /\ pc' = [pc EXCEPT ![th] = "idle"]
    /\ lock' = 0
    /\ UNCHANGED <<issued, nextToken, req, seen, handed, gets>>
    /\ UNCHANGED <<coreVars, tableVars>>

NextWeb ==
    \/ \E page \in Editors : EditorCommand(page)
    \/ GenerateToken
    \/ \E th \in Threads, url \in Urls : DoGet(th, url)
    \/ \E th \in Threads : Acquire(th)
    \/ \E th \in Threads : Check(th)
    \/ \E th \in Threads : Mark(th)
    \/ Tick

SpecWeb == Init /\ [][NextWeb]_vars


\* ------------------------------------------------- schedule module, all users
Users == {1, 2}

\* rows of the table with the given user_id and name
Matching(tbl, u, n) == {r \in tbl : r.user_id = u /\ r.name = n}

\* Faulty variant of SaveRows: the existence test is left out, every save is
\* an INSERT.
SaveRowsInsertOnly(tbl, u, n, start, rem) ==
    tbl \cup {[id |-> nextRowId, user_id |-> u, name |-> n,
               start |-> start, rem |-> rem]}

\* save_schedule: UPDATE ... WHERE user_id = ? AND name = ? when get_schedule
\* finds the schedule, else INSERT
SaveRows(tbl, u, n, start, rem) ==
    IF Matching(tbl, u, n) # {}
    THEN {IF r \in Matching(tbl, u, n)
          THEN [r EXCEPT !.start = start, !.rem = rem]
          ELSE r : r \in tbl}
    ELSE tbl \cup {[id |-> nextRowId, user_id |-> u, name |-> n,
                    start |-> start, rem |-> rem]}

\* save_schedule(user_id, name, ...)
SaveScheduleCall(u, n, start, rem) ==
    /\ cmds < MaxCmds
    /\ cmds' = cmds + 1
    /\ rows' = SaveRows(rows, u, n, start, rem)
    /\ nextRowId' = IF \E r \in rows' : r.id = nextRowId
                     THEN nextRowId + 1 ELSE nextRowId
    /\ outcome' = IF Matching(rows, u, n) # {} THEN "updated" ELSE "created"
    /\ UNCHANGED <<now, tz, schedules, nextSchedId, reminders, running, jobs,
                   nextReg, tasks, delivered, replaced, starts, errors>>
    /\ UNCHANGED webVars

\* delete_schedule(user_id, name)
DeleteScheduleCall(u, n) ==
    /\ cmds < MaxCmds
    /\ cmds' = cmds + 1
    /\ rows' = rows \ Matching(rows, u, n)
    /\ outcome' = IF Matching(rows, u, n) # {} THEN "deleted" ELSE "not found"
    /\ UNCHANGED <<now, tz, schedules, nextSchedId, reminders, running, jobs,
                   nextReg, tasks, delivered, replaced, starts, errors>>
    /\ UNCHANGED <<webVars, nextRowId>>

NextSchedules ==
    \/ \E u \in Users, n \in Names, st \in StartTimes, rem \in ReminderMinutes :
           SaveScheduleCall(u, n, st, rem)
    \/ \E u \in Users, n \in Names : DeleteScheduleCall(u, n)

SpecSchedules == Init /\ [][NextSchedules]_vars

\* ---------------------------------------------------------------- claims

Unsent(i) == reminders[i].sent = FALSE
FiringTime(i) == FromIsoFormat(reminders[i].reminder_time)

\* C1: at-most-once delivery: no reminder occurrence (schedule id, fire time)
\* reaches the notification channel twice, also when the fire callback is
\* invoked twice for the same schedule id.
C1_NoDuplicateDelivery ==
    \A e \in BagToSet(delivered) : CopiesIn(e, delivered) <= 1

\* C2: after schedule_reminder went past its early returns for a schedule
\* (lead > 0, start - lead > now) exactly one reminder row exists for the
\* schedule id, unsent, with firing time start - lead, and a job keyed by
\* the schedule id is armed for that time.
C2_ExactlyOneRowAfterSchedule ==
    [][\A n \in Names, st \in StartTimes, rem \in ReminderMinutes :
         (HandleScheduleWebAppData(n, st, rem) /\ rem > 0 /\ st - rem > LocalNow)
         => LET sid == schedules'[n].id IN
              /\ Cardinality(RowsOf(reminders', sid)) = 1
              /\ \A i \in RowsOf(reminders', sid) :
                    /\ reminders'[i].sent = FALSE
                    /\ reminders'[i].reminder_time = IsoFormat(st - rem)
              /\ \E j \in jobs' : j.id = sid /\ j.fire = st - rem]_vars

\* C3: the store holds at most one reminder row per schedule id.
C3_OneRowPerScheduleId ==
    \A sid \in SchedIds : Cardinality(RowsOf(reminders, sid)) <= 1

\* C4: the job table holds at most one job per schedule id; a registration
\* that add_job replaced is no longer armed and its callback is never invoked.
C4_OneJobPerScheduleId ==
    /\ \A j1 \in jobs, j2 \in jobs : j1.id = j2.id => j1 = j2
    /\ \A j \in jobs : j.reg \notin replaced
    /\ \A t \in tasks : t.reg \notin replaced

\* a job was replaced and a callback has been invoked since
C4_Witness == replaced # {} /\ tasks # {}

\* C5: after cancel_reminder(schedule id) returns no job for the schedule id
\* is armed and no pending (unsent) reminder row for it remains in the store.
C5_CancelRemovesJobAndRow ==
    [][\A n \in Names :
         (DeleteCommand(n) /\ GetSchedule(n).rem # 0)
         => LET sid == GetSchedule(n).id IN
              /\ JobsOf(jobs', sid) = {}
              /\ \A i \in RowsOf(reminders', sid) : reminders'[i].sent]_vars

\* C6: after a restart every reminder row of a schedule in the store that is
\* unsent and whose firing time is still in the future has a job armed for
\* its schedule id at the row's firing time.
C6_RestartRearmsFutureRows ==
    [][Start =>
         \A i \in DOMAIN reminders' :
            (reminders'[i].sent = FALSE
               /\ ScheduleById(reminders'[i].schedule_id) # NoSched
               /\ FromIsoFormat(reminders'[i].reminder_time) > LocalNow')
            => \E j \in jobs' :
                  /\ j.id = reminders'[i].schedule_id
                  /\ j.fire = FromIsoFormat(reminders'[i].reminder_time)]_vars

\* C7: startup reconciliation arms no job for an unsent row whose firing time
\* is not after the current time, and leaves the row as it is.
C7_NoJobForPastRows ==
    [][Start =>
         /\ reminders' = reminders
         /\ \A i \in DOMAIN reminders :
              (Unsent(i) /\ FiringTime(i) <= LocalNow)
              => ~\E j \in jobs' :
                     j.id = reminders[i].schedule_id /\ j.fire = FiringTime(i)]_vars

\* C8: a reminder row keeps its identity and its sent flag never goes from
\* true back to false, whatever operation runs.
C8_SentIsMonotonic ==
    [][\A i \in DOMAIN reminders :
         /\ i \in DOMAIN reminders'
         /\ reminders'[i].schedule_id = reminders[i].schedule_id
         /\ reminders[i].sent => reminders'[i].sent]_vars

\* a sent row and a later unsent row of the same schedule id
C8_Witness ==
    \E i \in DOMAIN reminders, k \in DOMAIN reminders :
        /\ i < k
        /\ reminders[i].schedule_id = reminders[k].schedule_id
        /\ reminders[i].sent
        /\ ~reminders[k].sent

\* C9: a row becomes sent only in a step of a send task whose message the
\* channel has accepted, and that step marks every row of the schedule id
\* sent with sent_at equal to the current time.
C9_MarkedAfterSuccess ==
    [][\A i \in DOMAIN reminders :
         (~reminders[i].sent /\ reminders'[i].sent)
         => /\ \E t \in tasks :
                 /\ t.stage = "delivered"
                 /\ t.sched.id = reminders[i].schedule_id
                 /\ BagIn(<<t.sched.id, t.fire>>, delivered)
                 /\ t \notin tasks'
            /\ \A k \in RowsOf(reminders, reminders[i].schedule_id) :
                 reminders'[k].sent /\ reminders'[k].sent_at = now]_vars

\* a fired reminder was delivered and its row is marked
C9_Witness ==
    \E i \in DOMAIN reminders :
        /\ reminders[i].sent
        /\ reminders[i].sent_at # NoTime
        /\ \E e \in BagToSet(delivered) : e[1] = reminders[i].schedule_id

C11_PastDueIsSkipped ==
    [][\A n \in Names, st \in StartTimes, rem \in ApiReminderMinutes :
         (ScheduleReminder(n, st, rem) /\ rem > 0 /\ st - rem <= LocalNow)
         => /\ reminders' = reminders
            /\ jobs' = jobs
            /\ nextReg' = nextReg
            /\ outcome' = "returned"]_vars

\* schedule_reminder has returned for a schedule whose firing time equals
\* the current time, and the store has no row for it
C11_Witness ==
    \E n \in Names :
        /\ GetSchedule(n) # NoSched
        /\ GetSchedule(n).rem > 0
        /\ ReminderTime(GetSchedule(n)) = LocalNow
        /\ RowsOf(reminders, GetSchedule(n).id) = {}
        /\ outcome = "returned"

\* C12: for a schedule whose reminder_minutes is None or zero schedule_reminder
\* is a no-op: no reminder row is created, no job is registered, and the
\* reminder store and the job table are left as they were.
C12_NoLeadIsNoOp ==
    [][\A n \in Names, st \in StartTimes, rem \in {NoMinutes, 0} :
         ScheduleReminder(n, st, rem)
         => /\ reminders' = reminders
            /\ jobs' = jobs
            /\ nextReg' = nextReg
            /\ tasks' = tasks
            /\ outcome' = "returned"]_vars

\* schedule_reminder has returned for a schedule saved with None and for one
\* saved with zero, both starting in the future, and neither has a row
C12_Witness ==
    /\ outcome = "returned"
    /\ \A rem \in {NoMinutes, 0} :
          \E n \in Names :
             /\ GetSchedule(n) # NoSched
             /\ GetSchedule(n).rem = rem
             /\ GetSchedule(n).start > LocalNow
             /\ RowsOf(reminders, GetSchedule(n).id) = {}

\* C13: a reminder requested with a non-positive lead time, a negative one
\* included, is skipped by schedule_reminder: no row is written and no job is
\* armed, in particular none for a time after the start of the schedule.
C13_NonPositiveLeadIsSkipped ==
    [][\A n \in Names, st \in StartTimes, rem \in ApiReminderMinutes :
         (ScheduleReminder(n, st, rem) /\ rem # NoMinutes /\ rem <= 0)
         => /\ reminders' = reminders
            /\ jobs' = jobs
            /\ \A j \in jobs' : j.fire <= j.sched.start]_vars

\* C14: cancel_reminder for a schedule id with no armed job and no reminder
\* row does not raise and leaves the store and the job table unchanged; a
\* second cancel of the same id right after the first changes nothing more
\* and does not raise either.
C14_CancelAbsentIsNoOp ==
    /\ [](\A sid \in SchedIds :
             /\ CancelReminder(CancelReminder(jobs, sid), sid)
                   = CancelReminder(jobs, sid)
             /\ ~CancelRaises(CancelReminder(jobs, sid), sid))
    /\ [][\A sid \in SchedIds :
            (CancelReminderCall(sid)
               /\ JobsOf(jobs, sid) = {} /\ RowsOf(reminders, sid) = {})
            => /\ outcome' = "returned"
               /\ reminders' = reminders
               /\ schedules' = schedules
               /\ jobs' = jobs
               /\ tasks' = tasks]_vars

\* cancel_reminder has returned twice while no schedule, row or job existed
C14_Witness ==
    /\ cmds = 2
    /\ outcome = "returned"
    /\ \A n \in Names : GetSchedule(n) = NoSched
    /\ reminders = <<>>
    /\ jobs = {}

\* C15: when reading the reminder store fails during startup reconciliation,
\* start() raises to its caller and the background timer engine is not left
\* running.
C15_FailedStartLeavesEngineStopped ==
    [][StartFail => outcome' = "raised" /\ ~running']_vars

\* C16: stop() halts the background engine and does not modify the store:
\* every reminder row, pending or sent, and every schedule present before
\* stop() is present and unchanged after it.
C16_StopKeepsStore ==
    [][Stop => /\ ~running'
               /\ reminders' = reminders
               /\ schedules' = schedules]_vars

\* the service was stopped while a send task was queued, and the store holds
\* a sent row and a pending row
C16_Witness ==
    /\ ~running
    /\ tasks # {}
    /\ \E i \in DOMAIN reminders : Unsent(i)
    /\ \E i \in DOMAIN reminders : ~Unsent(i)

\* C17: the job table is a cache of the store: each armed job of a schedule
\* id has a reminder row of that schedule id that is unsent and whose firing
\* time equals the fire time of the job.
C17_JobsMirrorUnsentRows ==
    \A j \in jobs :
        \E i \in RowsOf(reminders, j.id) :
            Unsent(i) /\ FiringTime(i) = j.fire

\* C18: a cancel_reminder that arrives while the fire of the same job id is
\* in flight (the job was taken by the timer engine and handed to a send
\* task) returns to its caller without an exception, queues no send task and
\* delivers nothing; a registration in flight is no longer armed and has one
\* send task, so its delivery happens at most once.
C18_CancelDuringFire ==
    /\ [](\A t \in tasks :
             /\ ~\E j \in jobs : j.reg = t.reg
             /\ \A u \in tasks : u.reg = t.reg => u = t)
    /\ [][\A n \in Names :
            (DeleteCommand(n)
               /\ GetSchedule(n).rem > 0
               /\ \E t \in tasks : t.sched.id = GetSchedule(n).id)
            => /\ outcome' = "returned"
               /\ tasks' = tasks
               /\ delivered' = delivered
               /\ JobsOf(jobs', GetSchedule(n).id) = {}]_vars

\* the only schedule ever saved was deleted while the send task of its fired
\* reminder was still queued
C18_Witness ==
    /\ cmds = 2
    /\ nextSchedId = 2
    /\ outcome = "returned"
    /\ \A n \in Names : GetSchedule(n) = NoSched
    /\ \E t \in tasks : t.stage = "queued" /\ t.sched.id = 1

\* C19: the delivery of an older registration of a schedule's reminder never
\* marks a newer pending registration sent: when a send task marks, a row of
\* the same schedule id whose job (a later registration) is still armed for
\* the row's firing time stays unsent.
C19_OldDeliveryKeepsNewRow ==
    [][\A t \in tasks :
         MarkReminderSent(t)
         => \A i \in RowsOf(reminders, t.sched.id) :
               (/\ Unsent(i)
                /\ \E j \in jobs : /\ j.id = t.sched.id
                                   /\ j.reg > t.reg
                                   /\ j.fire = FiringTime(i))
               => ~reminders'[i].sent]_vars

\* C20: at-most-once holds across restarts: when the process went down after
\* the notification of a reminder was sent and before its row was marked
\* sent, the next start() arms no job for that row.
C20_NoRearmAfterDelivery ==
    [][Start =>
         \A i \in DOMAIN reminders :
            (Unsent(i)
               /\ BagIn(<<reminders[i].schedule_id, FiringTime(i)>>, delivered))
            => ~\E j \in jobs' :
                   /\ j.id = reminders[i].schedule_id
                   /\ j.fire = FiringTime(i)]_vars

\* the reminder row of a schedule id inserted last
NewestRow(sid) ==
    CHOOSE i \in RowsOf(reminders, sid) :
        \A k \in RowsOf(reminders, sid) : k <= i

\* C21: after the reminder of a schedule id was scheduled again with another
\* firing time and the process restarts, startup reconciliation arms at most
\* one job for the schedule id, and the job it arms fires at the firing time
\* persisted last, never at a superseded one.
C21_RestartArmsLatestTime ==
    [][Start =>
         \A sid \in SchedIds :
            /\ Cardinality(JobsOf(jobs', sid)) <= 1
            /\ \A j \in JobsOf(jobs', sid) :
                  j.fire = FiringTime(NewestRow(sid))]_vars

\* C22: when a schedule is saved again so that it no longer warrants a
\* reminder (lead time zero, or the new firing time is not after the current
\* time), no job of the schedule id stays armed, so nothing is delivered
\* later at the stale firing time.
C22_ResaveDisarmsStaleJob ==
    [][\A n \in Names, st \in StartTimes, rem \in ReminderMinutes :
         (HandleScheduleWebAppData(n, st, rem)
            /\ GetSchedule(n) # NoSched
            /\ ~(rem > 0 /\ st - rem > LocalNow))
         => JobsOf(jobs', GetSchedule(n).id) = {}]_vars

\* C23: once /delete has deleted a schedule no reminder of it is delivered:
\* the timer engine runs no job of a schedule id that is no longer in the
\* schedules table, neither a job left armed in the running process nor one
\* armed again by a later startup reconciliation.
C23_NoFireAfterDelete ==
    [][\A j \in jobs :
         SendReminder(j) => ScheduleById(j.id) # NoSched]_vars

\* C24: the time comparisons of the reminder core agree: at any instant the
\* past-due test of schedule_reminder (firing time <= now) and the future-row
\* filter of startup reconciliation (reminder_time > now) classify the firing
\* time of a stored row the same way, whatever the host's offset from UTC.
C24_OneTimeRepresentation ==
    \A i \in DOMAIN reminders :
        (FiringTime(i) <= LocalNow)
          <=> ~TextGreater(reminders[i].reminder_time, SqlDatetimeNow)

\* C25: while the process stays up and the job is neither cancelled nor
\* replaced, the callback of an armed job is invoked exactly once when the
\* current time reaches its fire time: the clock does not pass the fire time
\* of an armed job, running the job queues one send task and takes the job
\* out of the job table, and a registration is never armed a second time.
C25_FiresOnceThenGone ==
    /\ [][(running /\ now' > now) => \A j \in jobs : j.fire > LocalNow]_vars
    /\ [][\A j \in jobs :
            SendReminder(j)
            => /\ j.fire = LocalNow
               /\ ~\E t \in tasks : t.reg = j.reg
               /\ Cardinality({t \in tasks' : t.reg = j.reg}) = 1
               /\ ~\E k \in jobs' : k.reg = j.reg]_vars
    /\ [][\A j \in jobs' \ jobs : j.reg >= nextReg]_vars

\* the only job ever armed was run in the process that armed it: its send
\* task is queued and the job table is empty
C25_Witness ==
    /\ running
    /\ starts = 1
    /\ cmds = 1
    /\ nextReg = 2
    /\ jobs = {}
    /\ \E t \in tasks : t.reg = 1 /\ t.stage = "queued" /\ t.fire = LocalNow

\* C26: firing does not block the timer engine: the callback only hands the
\* delivery to a send task and returns, so a job that is due can be run
\* whatever deliveries are in flight, and running it leaves the send tasks
\* already in flight as they are.
C26_FiringNotBlocked ==
    /\ [](\A j \in jobs :
             (running /\ j.fire = LocalNow) => ENABLED SendReminder(j))
    /\ [][\A j \in jobs :
            SendReminder(j) => tasks \subseteq tasks' /\ delivered' = delivered]_vars

\* the reminder of one schedule was fired and queued while the delivery of
\* an earlier reminder of another schedule was still waiting for the channel
C26_Witness ==
    \E t \in tasks, u \in tasks :
        /\ t.sched.id # u.sched.id
        /\ t.fire < u.fire
        /\ t.stage = "queued"
        /\ u.stage = "queued"

\* C27: a reminder row has sent_at set exactly when sent is true, and sent_at
\* is written only in the step in which sent becomes true: once a row is
\* sent, no later delivery or re-scheduling changes its sent_at.
C27_SentAtWrittenOnce ==
    /\ [](\A i \in DOMAIN reminders :
             reminders[i].sent <=> reminders[i].sent_at # NoTime)
    /\ [][\A i \in DOMAIN reminders :
            reminders[i].sent
            => reminders'[i].sent_at = reminders[i].sent_at]_vars

\* C28: Web App access tokens are one-time use: over any interleaving of
\* requests validate_and_consume returns True at most once for a token, and
\* it returns True only for a token that generate_token returned, that is not
\* empty, was not used before and is not older than expiry_seconds.
C28_TokensAreOneTimeUse ==
    /\ [](\A t \in TokenArgs : grants[t] <= 1)
    /\ [][\A th \in Threads :
            (pc[th] = "check" /\ pc'[th] = "mark")
            => LET t == req[th].token IN
                 /\ t # NoToken
                 /\ issued[t] # NoTime
                 /\ grants[t] = 0
                 /\ ~(now - issued[t] > ExpirySeconds)]_vars
    /\ [][\A t \in TokenArgs :
            grants'[t] # grants[t]
            => \E th \in Threads :
                  /\ pc[th] = "mark"
                  /\ req[th].token = t
                  /\ pc'[th] = "idle"]_vars

\* both request threads presented the same generated token for an editor:
\* one was served, the other refused
C28_Witness ==
    \E t \in 1 .. MaxTokens :
        /\ grants[t] = 1
        /\ \A th \in Threads :
              req[th].token = t /\ req[th].page \in Editors /\ pc[th] = "idle"
        /\ {resp[th] : th \in Threads} = {Served, Forbidden}

\* C29: the editor URL the bot hands to a user passes the token check of the
\* web server: a GET of a URL the bot has handed out is never answered with
\* 403.
C29_HandedUrlIsServed ==
    [][\A th \in Threads :
         (/\ pc'[th] = "idle"
          /\ pc[th] # "idle" \/ gets' # gets
          /\ resp'[th] = Forbidden)
         => req'[th] \notin handed]_vars

\* C30: after any sequence of save_schedule and delete_schedule calls there
\* is at most one schedule per (user_id, name) and per id; saving a name that
\* exists updates that schedule in place and keeps its id, and leaves every
\* other schedule as it is, so the job id and the reminder rows derived from
\* the id keep referring to the same schedule across edits.
C30_OneSchedulePerName ==
    /\ [](\A r1 \in rows, r2 \in rows :
             \/ r1 = r2
             \/ /\ r1.id # r2.id
                /\ r1.user_id # r2.user_id \/ r1.name # r2.name)
    /\ [][\A u \in Users, n \in Names, st \in StartTimes,
            rem \in ReminderMinutes :
            (SaveScheduleCall(u, n, st, rem) /\ Matching(rows, u, n) # {})
            => /\ {r.id : r \in Matching(rows', u, n)}
                    = {r.id : r \in Matching(rows, u, n)}
               /\ rows' \ Matching(rows', u, n) = rows \ Matching(rows, u, n)
               /\ nextRowId' = nextRowId]_vars

\* two users have a schedule of the same name and the last call updated one
\* of them
C30_Witness ==
    /\ outcome = "updated"
    /\ nextRowId = 3
    /\ \E n \in Names :
          \A u \in Users : Cardinality(Matching(rows, u, n)) = 1
====
